---- MODULE Spec2Model ----
(***************************************************************************)
(* Konsultabot mobile/web client: the credential store, the session        *)
(* bootstrap, the auth operations of AuthContext and the chat session      *)
(* bookkeeping of ChatScreen, as state machines.                           *)
(*                                                                         *)
(* Every JavaScript value is a string here: NULL and UNDEF stand for the   *)
(* values null and undefined, "undefined" is the seven-letter text.        *)
(***************************************************************************)
EXTENDS Integers, Sequences, FiniteSets

NULL == "<null>"
UNDEF == "<undefined>"

\* Bounds of the model.
MaxRestarts == 1
MaxSends == 3
MaxClock == 3

\* Values the backend can return.
Tokens == {"t1", "t2"}
Users == {"u1", "u2"}
\* response.data.user of updateProfile may be missing from the payload.
PayloadUsers == Users \cup {UNDEF}
Messages == {UNDEF, "", "Invalid credentials"}
ResolvedStatuses == {200, 204}
RejectedStatuses == {0, 401, 500}

\* web: AuthContext.js on localStorage; native: AuthContext.js on SecureStore;
\* legacy: the AuthContext of app.config.js (SecureStore, no validation).
Builds == {"web", "native", "legacy"}

AuthOps == {"login", "register"}

\* Chat: texts the user types (sequences of characters), session ids the backend hands
\* out, and two of the four entries of the language menu of ChatScreen.
Texts == {<<>>, <<" ">>, <<"h">>, <<" ", "h", " ">>}
SessionIds == {"s1", "s2"}
Languages == {"english", "waray"}
AllOps == {"login", "register", "updateProfile", "logout"}

\* Forms: a text is a sequence of pieces, each piece a run of characters that
\* the checks of the forms never split.
EvsuDomain == <<"@", "evsu.edu.ph">>
StudentDomain == <<"@", "student.", "evsu.edu.ph">>
Emails ==
    {<<>>,
     <<"a", "@", "evsu.edu.ph">>,
     <<"a", "@", "student.", "evsu.edu.ph">>,
     <<"a", "@", "EVSU.EDU.PH">>,
     <<"a", "@", "gmail.com">>,
     <<"a", "@", "evsu.edu.ph", ".evil.com">>}
Names == {<<>>, <<"x">>}
\* Passwords, one character a piece: empty, five characters, six characters.
Passwords ==
    {<<>>, <<"p", "a", "s", "s", "1">>, <<"p", "a", "s", "s", "1", "2">>}

VARIABLES
    build,        \* which AuthContext / storage backend runs
    store,        \* credential store: authToken and userData keys
    user,         \* useState user
    token,        \* useState token
    isLoading,    \* useState isLoading
    authToken,    \* apiService.authToken
    bootPc,       \* position of loadStoredAuth / validateAndSetAuth
    storedToken,  \* local of loadStoredAuth
    storedUser,   \* local of loadStoredAuth
    clearFrom,    \* which branch of validateAndSetAuth called clearStoredAuth
    profileCalls, \* history: getProfile calls issued by this bootstrap
    validation,   \* history: how the getProfile call of this bootstrap settled
    cleared,      \* history: clearStoredAuth returned normally in this bootstrap
    bootStore,    \* history: the credential store this bootstrap started from
    ops,          \* position and locals of login/register/updateProfile/logout
    returned,     \* value returned by the step just taken, if it returned one
    restarts,     \* process restarts so far
    response,     \* history: status of the response the auth step just taken got,
                  \* -1 when it got none
    mounted,      \* ChatScreen is mounted and its mount effect has run
    messages,     \* useState messages
    inputText,    \* useState inputText
    loading,      \* useState loading (the busy flag)
    language,     \* useState language
    sessionId,    \* useState sessionId
    calls,        \* send-message calls in flight, with what each closure holds
                  \* and (history) where its user message stands in the list
    now,          \* last reading of Date.now()
    firstSid,     \* history: session_id of the first successful response
    settled,      \* history: how the call settled that the step just taken settled
    formData,     \* useState formData of RegisterScreen
    loginForm,    \* useState email and password of LoginScreen
    submitted     \* what the last press of Register / Login did

authVars == <<build, store, user, token, isLoading, authToken, bootPc,
              storedToken, storedUser, clearFrom, profileCalls, validation,
              cleared, bootStore, ops, returned, restarts, response>>

chatVars == <<mounted, messages, inputText, loading, language, sessionId,
              calls, now, firstSid, settled>>

\* Everything of the auth side but the API client's token.
authRest == <<build, store, user, token, isLoading, bootPc, storedToken,
              storedUser, clearFrom, profileCalls, validation, cleared,
              bootStore, ops, returned, restarts, response>>

formVars == <<formData, loginForm, submitted>>

\* Everything the screens hold.
uiVars == <<chatVars, formVars>>

vars == <<authVars, chatVars, formVars>>

\* JavaScript truthiness of the values used here.
Truthy(v) == v \notin {NULL, UNDEF, ""}

\* JSON.stringify of a user record; JSON.stringify(undefined) is undefined.
Stringify(u) ==
    CASE u = "u1" -> "{u1}"
      [] u = "u2" -> "{u2}"
      [] u = NULL -> "null"
      [] OTHER -> UNDEF

\* String(v), the coercion localStorage.setItem applies to its value.
CoerceString(v) ==
    IF v = UNDEF THEN "undefined" ELSE IF v = NULL THEN "null" ELSE v

\* JSON.parse: the parsed value, or a SyntaxError.
JSONParse(s) ==
    CASE s = "{u1}" -> [ok |-> TRUE, val |-> "u1"]
      [] s = "{u2}" -> [ok |-> TRUE, val |-> "u2"]
      [] s = "null" -> [ok |-> TRUE, val |-> NULL]
      [] OTHER -> [ok |-> FALSE, val |-> UNDEF]

IsWeb == build = "web"

\* String.prototype.trim on a sequence of characters.
RECURSIVE TrimStart(_)
TrimStart(s) == IF s # <<>> /\ Head(s) = " " THEN TrimStart(Tail(s)) ELSE s

RECURSIVE TrimEnd(_)
TrimEnd(s) ==
    IF s # <<>> /\ s[Len(s)] = " " THEN TrimEnd(SubSeq(s, 1, Len(s) - 1)) ELSE s

Trim(s) == TrimEnd(TrimStart(s))

EmptyStore == [authToken |-> NULL, userData |-> NULL]
IdleOp == [pc |-> "idle", tok |-> NULL, usr |-> NULL]
\* What an operation returned, with the `error.response?.data?.message` or
\* the response payload it was computed from.
NoResult ==
    [op |-> "none", success |-> FALSE, error |-> NULL, message |-> NULL,
     tok |-> NULL, usr |-> NULL]

Fallback(op) ==
    CASE op = "login" -> "Login failed"
      [] op = "register" -> "Registration failed"
      [] OTHER -> "Profile update failed"

\* error.response?.data?.message || fallback
ErrorText(op, msg) == IF Truthy(msg) THEN msg ELSE Fallback(op)

\* return { success: false, error: ... }
Failure(op, msg) ==
    [op |-> op, success |-> FALSE, error |-> ErrorText(op, msg),
     message |-> msg, tok |-> NULL, usr |-> NULL]

\* return { success: true }
Success(op, tok, usr) ==
    [op |-> op, success |-> TRUE, error |-> NULL, message |-> NULL,
     tok |-> tok, usr |-> usr]

\* An interceptor that leaves the client's token on a 401.
InterceptKeepingToken(status) == authToken

\* Response interceptor: a 401 clears the client's token.
Intercept(status) == IF status = 401 THEN NULL ELSE authToken

Quiescent == bootPc = "done" /\ \A o \in AllOps : ops[o].pc = "idle"

ChatUnmounted ==
    /\ mounted = FALSE
    /\ messages = <<>>
    /\ inputText = <<>>
    /\ loading = FALSE
    /\ language = "english"
    /\ sessionId = NULL
    /\ calls = <<>>
    /\ now = 0
    /\ firstSid = NULL
    /\ settled = "none"

EmptyForm ==
    [student_id |-> <<>>, email |-> <<>>, password |-> <<>>,
     password_confirm |-> <<>>, first_name |-> <<>>, last_name |-> <<>>]

\* What a press of Register or Login did: the alert it showed, or the call
\* it made with the email of the form.
NoSubmit == [form |-> "none", alert |-> NULL, called |-> FALSE, email |-> <<>>]

FormsUnsubmitted ==
    /\ formData = EmptyForm
    /\ loginForm = [email |-> <<>>, password |-> <<>>]
    /\ submitted = NoSubmit

Init ==
    /\ ChatUnmounted
    /\ FormsUnsubmitted
    /\ build \in Builds
    /\ store = EmptyStore
    /\ user = NULL
    /\ token = NULL
    /\ isLoading = TRUE
    /\ authToken = NULL
    /\ bootPc = "start"
    /\ storedToken = NULL
    /\ storedUser = NULL
    /\ clearFrom = "none"
    /\ profileCalls = 0
    /\ validation = "none"
    /\ cleared = FALSE
    /\ bootStore = EmptyStore
    /\ ops = [o \in AllOps |-> IdleOp]
    /\ returned = NoResult
    /\ restarts = 0
    /\ response = -1

(***************************************************************************)
(* Session bootstrap: loadStoredAuth, validateAndSetAuth, clearStoredAuth. *)
(***************************************************************************)

\* A loadStoredAuth without its finally block.
FinishLoadStillLoading ==
    /\ isLoading' = isLoading
    /\ bootPc' = "done"
    /\ storedToken' = NULL
    /\ storedUser' = NULL
    /\ clearFrom' = "none"
    /\ bootStore' = EmptyStore

\* `finally { setIsLoading(false) }` of loadStoredAuth; its locals go out of
\* scope.
FinishLoad ==
    /\ isLoading' = FALSE
    /\ bootPc' = "done"
    /\ storedToken' = NULL
    /\ storedUser' = NULL
    /\ clearFrom' = "none"
    /\ bootStore' = EmptyStore

\* validateAndSetAuth reaches `await clearStoredAuth()` from its else branch
\* (inside the try) or from its catch block.  On localStorage the two
\* removeItem calls run at once; on SecureStore each delete is awaited.
BeginClear(from) ==
    IF IsWeb
    THEN /\ store' = EmptyStore
         /\ cleared' = TRUE
         /\ FinishLoad
    ELSE /\ bootPc' = "clearToken"
         /\ clearFrom' = from
         /\ UNCHANGED <<store, isLoading, storedToken, storedUser, cleared,
                        bootStore>>

\* setToken(storedToken); setUser(JSON.parse(storedUser)): a SyntaxError of
\* JSON.parse leaves the token set and the user as it was.
RestoreSession(st, su) ==
    LET p == JSONParse(su) IN
    /\ token' = st
    /\ user' = IF p.ok THEN p.val ELSE user

\* The loadStoredAuth of app.config.js restores without validating.
LegacyRestore(st, su) ==
    /\ RestoreSession(st, su)
    /\ authToken' = IF JSONParse(su).ok THEN st ELSE authToken
    /\ FinishLoad
    /\ UNCHANGED profileCalls

\* `if (storedToken && storedUser)` of loadStoredAuth.
AfterReads(st, su) ==
    IF Truthy(st) /\ Truthy(su)
    THEN IF build = "legacy"
         THEN LegacyRestore(st, su)
         ELSE /\ authToken' = st
              /\ profileCalls' = profileCalls + 1
              /\ bootPc' = "getProfile"
              /\ storedToken' = st
              /\ storedUser' = su
              /\ UNCHANGED <<isLoading, user, token, clearFrom, bootStore>>
    ELSE /\ FinishLoad
         /\ UNCHANGED <<authToken, profileCalls, user, token>>

\* loadStoredAuth on localStorage: both reads are synchronous.
loadStoredAuthWeb ==
    /\ bootPc = "start"
    /\ IsWeb
    /\ AfterReads(store.authToken, store.userData)
    /\ returned' = NoResult
    /\ UNCHANGED <<uiVars, build, store, validation, cleared, ops, restarts>>
    /\ response' = -1

\* `await SecureStore.getItemAsync('authToken')` settles.
loadStoredAuthReadToken ==
    /\ bootPc = "start"
    /\ ~IsWeb
    /\ \/ FinishLoad
       \/ /\ storedToken' = store.authToken
          /\ bootPc' = "readUser"
          /\ UNCHANGED <<isLoading, storedUser, clearFrom, bootStore>>
    /\ returned' = NoResult
    /\ UNCHANGED <<uiVars, build, store, user, token, authToken,
                   profileCalls, validation, cleared, ops, restarts>>
    /\ response' = -1

\* `await SecureStore.getItemAsync('userData')` settles, and the test that
\* follows.
loadStoredAuthReadUser ==
    /\ bootPc = "readUser"
    /\ \/ /\ FinishLoad
          /\ UNCHANGED <<authToken, profileCalls, user, token>>
       \/ AfterReads(storedToken, store.userData)
    /\ returned' = NoResult
    /\ UNCHANGED <<uiVars, build, store, validation, cleared, ops, restarts>>
    /\ response' = -1

\* The getProfile call of validateAndSetAuth settles.
validateAndSetAuth ==
    /\ bootPc = "getProfile"
    /\ \E status \in ResolvedStatuses \cup RejectedStatuses :
          /\ response' = status
          /\ IF status = 200
             THEN /\ validation' = "ok"
                  /\ RestoreSession(storedToken, storedUser)
                  /\ authToken' = authToken
                  /\ IF JSONParse(storedUser).ok
                     THEN FinishLoad /\ UNCHANGED <<store, cleared>>
                     ELSE BeginClear("catch")
             ELSE IF status \in ResolvedStatuses
             THEN /\ validation' = "failed"
                  /\ BeginClear("else")
                  /\ UNCHANGED <<user, token, authToken>>
             ELSE /\ validation' = "failed"
                  /\ authToken' = Intercept(status)
                  /\ BeginClear("catch")
                  /\ UNCHANGED <<user, token>>
    /\ returned' = NoResult
    /\ UNCHANGED <<uiVars, build, profileCalls, ops, restarts>>

\* A SecureStore delete of clearStoredAuth rejected: from the else branch the
\* catch block runs clearStoredAuth again, from the catch block the error
\* reaches loadStoredAuth.
ClearThrew ==
    /\ IF clearFrom = "else"
       THEN /\ bootPc' = "clearToken"
            /\ clearFrom' = "catch"
            /\ UNCHANGED <<isLoading, storedToken, storedUser, bootStore>>
       ELSE FinishLoad
    /\ UNCHANGED <<store, cleared>>

\* `await SecureStore.deleteItemAsync('authToken')` of clearStoredAuth.
clearStoredAuthToken ==
    /\ bootPc = "clearToken"
    /\ \/ ClearThrew
       \/ /\ store' = [store EXCEPT !.authToken = NULL]
          /\ bootPc' = "clearUser"
          /\ UNCHANGED <<isLoading, clearFrom, storedToken, storedUser, cleared,
                         bootStore>>
    /\ returned' = NoResult
    /\ UNCHANGED <<uiVars, build, user, token, authToken, profileCalls,
                   validation, ops, restarts>>
    /\ response' = -1

\* `await SecureStore.deleteItemAsync('userData')` of clearStoredAuth.
clearStoredAuthUser ==
    /\ bootPc = "clearUser"
    /\ \/ ClearThrew
       \/ /\ store' = [store EXCEPT !.userData = NULL]
          /\ cleared' = TRUE
          /\ FinishLoad
    /\ returned' = NoResult
    /\ UNCHANGED <<uiVars, build, user, token, authToken, profileCalls,
                   validation, ops, restarts>>
    /\ response' = -1

Bootstrap ==
    \/ loadStoredAuthWeb
    \/ loadStoredAuthReadToken
    \/ loadStoredAuthReadUser
    \/ validateAndSetAuth
    \/ clearStoredAuthToken
    \/ clearStoredAuthUser

(***************************************************************************)
(* Auth operations: login, register, updateProfile, logout.  A call that   *)
(* awaits leaves its position in ops; the screens that trigger login and   *)
(* register disable their button while their own call is in flight, and   *)
(* the model keeps at most one call of each operation in flight.           *)
(***************************************************************************)

SetOp(op, rec) == [ops EXCEPT ![op] = rec]

\* An AppContent without `if (isLoading) return null`.
AuthScreensWhileLoading == ~Truthy(user)

\* AppContent renders AuthNavigator: not loading, no user.
AuthScreens == ~isLoading /\ ~Truthy(user)
\* AppContent renders MainNavigator: not loading, a user.
MainScreens == ~isLoading /\ Truthy(user)

\* setToken(authToken); setUser(userData); apiService.setAuthToken(authToken)
CommitSession(tok, usr) ==
    /\ token' = tok
    /\ user' = usr
    /\ authToken' = tok

\* A catch block that also drops the session.
ReturnFailureDroppingSession(op, msg) ==
    /\ returned' = Failure(op, msg)
    /\ ops' = SetOp(op, IdleOp)
    /\ user' = NULL
    /\ token' = NULL

\* The operation returns from its catch block without touching the session.
ReturnFailure(op, msg) ==
    /\ returned' = Failure(op, msg)
    /\ ops' = SetOp(op, IdleOp)
    /\ UNCHANGED <<user, token>>

\* login(...) / register(...) up to its first await.
CallAuth(op) ==
    /\ AuthScreens
    /\ ops[op].pc = "idle"
    /\ ops' = SetOp(op, [pc |-> "net", tok |-> NULL, usr |-> NULL])
    /\ UNCHANGED <<build, store, user, token, isLoading, authToken, bootPc,
                   storedToken, storedUser, clearFrom, profileCalls,
                   validation, cleared, bootStore, restarts>>
    /\ returned' = NoResult
    /\ response' = -1

\* handleLogin / handleRegister call login(...) / register(...) with a form
\* that passes their checks.
StartAuth(op) ==
    /\ CallAuth(op)
    /\ UNCHANGED uiVars

\* The two localStorage.setItem calls of login / register and what follows.
AuthStoreWeb(op, tok, usr) ==
    \/ /\ ReturnFailure(op, UNDEF)
       /\ UNCHANGED <<store, authToken>>
    \/ /\ store' = [store EXCEPT !.authToken = CoerceString(tok)]
       /\ ReturnFailure(op, UNDEF)
       /\ UNCHANGED authToken
    \/ /\ store' = [authToken |-> CoerceString(tok),
                    userData |-> CoerceString(Stringify(usr))]
       /\ CommitSession(tok, usr)
       /\ returned' = Success(op, tok, usr)
       /\ ops' = SetOp(op, IdleOp)

\* apiService.login / apiService.register settles.
AuthResponse(op) ==
    /\ ops[op].pc = "net"
    /\ \/ \E status \in RejectedStatuses, msg \in Messages :
             /\ response' = status
             /\ authToken' = Intercept(status)
             /\ ReturnFailure(op, IF status = 0 THEN UNDEF ELSE msg)
             /\ UNCHANGED store
       \/ \E tok \in Tokens, usr \in Users :
             /\ response' = 200
             /\ IF IsWeb
                THEN AuthStoreWeb(op, tok, usr)
                ELSE /\ ops' = SetOp(op, [pc |-> "setToken", tok |-> tok,
                                          usr |-> usr])
                     /\ UNCHANGED <<store, user, token, authToken>>
                     /\ returned' = NoResult
    /\ UNCHANGED <<uiVars, build, isLoading, bootPc, storedToken, storedUser,
                   clearFrom, profileCalls, validation, cleared, bootStore,
                   restarts>>

\* `await SecureStore.setItemAsync('authToken', authToken)` settles.
AuthSetToken(op) ==
    /\ ops[op].pc = "setToken"
    /\ \/ /\ ReturnFailure(op, UNDEF)
          /\ UNCHANGED store
       \/ /\ store' = [store EXCEPT !.authToken = ops[op].tok]
          /\ ops' = SetOp(op, [ops[op] EXCEPT !.pc = "setUser"])
          /\ UNCHANGED <<user, token>>
          /\ returned' = NoResult
    /\ UNCHANGED <<uiVars, build, isLoading, authToken, bootPc, storedToken,
                   storedUser, clearFrom, profileCalls, validation, cleared, bootStore,
                   restarts>>
    /\ response' = -1

\* `await SecureStore.setItemAsync('userData', JSON.stringify(userData))`
\* settles, and the rest of the try block runs.
AuthSetUser(op) ==
    /\ ops[op].pc = "setUser"
    /\ \/ /\ ReturnFailure(op, UNDEF)
          /\ UNCHANGED <<store, authToken>>
       \/ /\ store' = [store EXCEPT !.userData = Stringify(ops[op].usr)]
          /\ CommitSession(ops[op].tok, ops[op].usr)
          /\ returned' = Success(op, ops[op].tok, ops[op].usr)
          /\ ops' = SetOp(op, IdleOp)
    /\ UNCHANGED <<uiVars, build, isLoading, bootPc, storedToken, storedUser,
                   clearFrom, profileCalls, validation, cleared, bootStore,
                   restarts>>
    /\ response' = -1

login ==
    \/ StartAuth("login")
    \/ AuthResponse("login")
    \/ AuthSetToken("login")
    \/ AuthSetUser("login")

register ==
    \/ StartAuth("register")
    \/ AuthResponse("register")
    \/ AuthSetToken("register")
    \/ AuthSetUser("register")

\* The profile screen calls updateProfile(profileData).
StartUpdateProfile ==
    /\ MainScreens
    /\ ops["updateProfile"].pc = "idle"
    /\ ops' = SetOp("updateProfile", [pc |-> "net", tok |-> NULL, usr |-> NULL])
    /\ UNCHANGED <<uiVars, build, store, user, token, isLoading, authToken, bootPc,
                   storedToken, storedUser, clearFrom, profileCalls,
                   validation, cleared, bootStore,
                   restarts>>
    /\ returned' = NoResult
    /\ response' = -1

\* localStorage.setItem('userData', ...) ; setUser(updatedUser)
RefreshUser(usr, text) ==
    /\ store' = [store EXCEPT !.userData = text]
    /\ user' = usr
    /\ returned' = Success("updateProfile", NULL, usr)
    /\ ops' = SetOp("updateProfile", IdleOp)
    /\ UNCHANGED <<token, authToken>>

\* apiService.updateProfile settles.
UpdateProfileResponse ==
    /\ ops["updateProfile"].pc = "net"
    /\ \/ \E status \in RejectedStatuses, msg \in Messages :
             /\ response' = status
             /\ authToken' = Intercept(status)
             /\ ReturnFailure("updateProfile", IF status = 0 THEN UNDEF ELSE msg)
             /\ UNCHANGED store
       \/ \E usr \in PayloadUsers :
             /\ response' = 200
             /\ IF IsWeb
                THEN \/ /\ ReturnFailure("updateProfile", UNDEF)
                        /\ UNCHANGED <<store, authToken>>
                     \/ RefreshUser(usr, CoerceString(Stringify(usr)))
                ELSE /\ ops' = SetOp("updateProfile",
                                     [pc |-> "setUser", tok |-> NULL,
                                      usr |-> usr])
                     /\ UNCHANGED <<store, user, token, authToken>>
                     /\ returned' = NoResult
    /\ UNCHANGED <<uiVars, build, isLoading, bootPc, storedToken, storedUser,
                   clearFrom, profileCalls, validation, cleared, bootStore,
                   restarts>>

\* `await SecureStore.setItemAsync('userData', JSON.stringify(updatedUser))`
\* settles; SecureStore rejects a value that is not a string.
UpdateProfileSetUser ==
    /\ ops["updateProfile"].pc = "setUser"
    /\ \/ /\ ReturnFailure("updateProfile", UNDEF)
          /\ UNCHANGED <<store, authToken>>
       \/ /\ Stringify(ops["updateProfile"].usr) # UNDEF
          /\ RefreshUser(ops["updateProfile"].usr,
                         Stringify(ops["updateProfile"].usr))
    /\ UNCHANGED <<uiVars, build, isLoading, bootPc, storedToken, storedUser,
                   clearFrom, profileCalls, validation, cleared, bootStore,
                   restarts>>
    /\ response' = -1

updateProfile ==
    \/ StartUpdateProfile
    \/ UpdateProfileResponse
    \/ UpdateProfileSetUser

\* The profile screen calls logout().
StartLogout ==
    /\ MainScreens
    /\ ops["logout"].pc = "idle"
    /\ ops' = SetOp("logout", [pc |-> "net", tok |-> NULL, usr |-> NULL])
    /\ UNCHANGED <<uiVars, build, store, user, token, isLoading, authToken, bootPc,
                   storedToken, storedUser, clearFrom, profileCalls,
                   validation, cleared, bootStore,
                   restarts>>
    /\ returned' = NoResult
    /\ response' = -1

\* setToken(null); setUser(null); apiService.setAuthToken(null)
ClearSession ==
    /\ token' = NULL
    /\ user' = NULL
    /\ authToken' = NULL
    /\ returned' = Success("logout", NULL, NULL)
    /\ ops' = SetOp("logout", IdleOp)

\* A SecureStore delete in the finally block of logout rejected: logout
\* rejects, and the rest of the finally block does not run.
LogoutThrew ==
    /\ returned' = [NoResult EXCEPT !.op = "logout"]
    /\ ops' = SetOp("logout", IdleOp)
    /\ UNCHANGED <<user, token, authToken>>

\* apiService.logout settles (its rejection is only logged), and the finally
\* block starts: on localStorage it runs to its end at once.
LogoutResponse ==
    /\ ops["logout"].pc = "net"
    /\ \E status \in {200} \cup RejectedStatuses :
          /\ response' = status
          /\ IF IsWeb
             THEN /\ store' = EmptyStore
                  /\ ClearSession
             ELSE /\ ops' = SetOp("logout",
                                  [ops["logout"] EXCEPT !.pc = "delToken"])
                  /\ authToken' = Intercept(status)
                  /\ UNCHANGED <<store, user, token>>
                  /\ returned' = NoResult
    /\ UNCHANGED <<uiVars, build, isLoading, bootPc, storedToken, storedUser,
                   clearFrom, profileCalls, validation, cleared, bootStore,
                   restarts>>

\* `await SecureStore.deleteItemAsync('authToken')` of logout settles.
LogoutDeleteToken ==
    /\ ops["logout"].pc = "delToken"
    /\ \/ /\ LogoutThrew
          /\ UNCHANGED store
       \/ /\ store' = [store EXCEPT !.authToken = NULL]
          /\ ops' = SetOp("logout", [ops["logout"] EXCEPT !.pc = "delUser"])
          /\ UNCHANGED <<user, token, authToken>>
          /\ returned' = NoResult
    /\ UNCHANGED <<uiVars, build, isLoading, bootPc, storedToken, storedUser,
                   clearFrom, profileCalls, validation, cleared, bootStore,
                   restarts>>
    /\ response' = -1

\* `await SecureStore.deleteItemAsync('userData')` of logout settles.
LogoutDeleteUser ==
    /\ ops["logout"].pc = "delUser"
    /\ \/ /\ LogoutThrew
          /\ UNCHANGED store
       \/ /\ store' = [store EXCEPT !.userData = NULL]
          /\ ClearSession
    /\ UNCHANGED <<uiVars, build, isLoading, bootPc, storedToken, storedUser,
                   clearFrom, profileCalls, validation, cleared, bootStore,
                   restarts>>
    /\ response' = -1

logout ==
    \/ StartLogout
    \/ LogoutResponse
    \/ LogoutDeleteToken
    \/ LogoutDeleteUser

\* The process is stopped and started again: the credential store persists,
\* everything in memory starts over.
Restart ==
    /\ Quiescent
    /\ restarts < MaxRestarts
    /\ restarts' = restarts + 1
    /\ user' = NULL
    /\ token' = NULL
    /\ isLoading' = TRUE
    /\ authToken' = NULL
    /\ bootPc' = "start"
    /\ storedToken' = NULL
    /\ storedUser' = NULL
    /\ clearFrom' = "none"
    /\ profileCalls' = 0
    /\ validation' = "none"
    /\ cleared' = FALSE
    /\ bootStore' = store
    /\ returned' = NoResult
    /\ UNCHANGED <<uiVars, build, store, ops>>
    /\ response' = -1

Next ==
    \/ Bootstrap
    \/ login
    \/ register
    \/ updateProfile
    \/ logout
    \/ Restart

Spec == Init /\ [][Next]_vars

\* Every awaited storage call and the getProfile call (axios timeout of 10 s)
\* of the bootstrap settle.
LiveSpec == Spec /\ WF_vars(Bootstrap)

(***************************************************************************)
(* Chat session bookkeeping: ChatScreen.  ChatSpec starts with ChatScreen  *)
(* first rendered under a session that login has established.              *)
(***************************************************************************)

WelcomeId == [tag |-> "welcome", ms |-> 0]
\* Date.now().toString() and (Date.now() + 1).toString()
ClockId(t) == [tag |-> "ms", ms |-> t]

ChatInit ==
    /\ ChatUnmounted
    /\ FormsUnsubmitted
    /\ build \in {"native", "legacy"}
    /\ store = [authToken |-> "t1", userData |-> Stringify("u1")]
    /\ user = "u1"
    /\ token = "t1"
    /\ isLoading = FALSE
    /\ authToken = "t1"
    /\ bootPc = "done"
    /\ storedToken = NULL
    /\ storedUser = NULL
    /\ clearFrom = "none"
    /\ profileCalls = 0
    /\ validation = "none"
    /\ cleared = FALSE
    /\ bootStore = EmptyStore
    /\ ops = [o \in AllOps |-> IdleOp]
    /\ returned = NoResult
    /\ restarts = 0
    /\ response = -1

\* A reading of Date.now(): never before the last one.
ClockReadings == {t \in {now, now + 1} : t <= MaxClock}

\* useEffect(..., []): setMessages([welcomeMessage])
welcomeEffect ==
    /\ ~mounted
    /\ mounted' = TRUE
    /\ messages' = << [id |-> WelcomeId, isBot |-> TRUE, isError |-> FALSE,
                       text |-> <<"welcome">>] >>
    /\ settled' = "none"
    /\ UNCHANGED <<inputText, loading, language, sessionId, calls, now,
                   firstSid, authVars, formVars>>

\* onChangeText={setInputText}
changeText ==
    /\ mounted
    /\ \E t \in Texts : inputText' = t
    /\ settled' = "none"
    /\ UNCHANGED <<mounted, messages, loading, language, sessionId, calls, now,
                   firstSid, authVars, formVars>>

\* Menu.Item onPress: setLanguage(lang.value)
selectLanguage ==
    /\ mounted
    /\ \E l \in Languages : language' = l
    /\ settled' = "none"
    /\ UNCHANGED <<mounted, messages, inputText, loading, sessionId, calls, now,
                   firstSid, authVars, formVars>>

\* The payload apiService.sendMessage posts.  KonsultabotMobileNew leaves
\* session_id out (UNDEF) when the session id is not truthy; the apiService
\* of mobile/ always sends it.
SendPayload(message, lang, sid) ==
    [message |-> message, language |-> lang,
     session_id |-> IF build = "legacy" \/ Truthy(sid) THEN sid ELSE UNDEF]

\* A sendMessage that appends the user message only with the reply.
sendMessageWithoutOptimisticAppend ==
    IF Trim(inputText) = <<>>
    THEN UNCHANGED <<chatVars, authVars, formVars>>
    ELSE /\ Len(calls) < MaxSends - 1
         /\ inputText' = <<>>
         /\ loading' = TRUE
         /\ calls' = Append(calls,
                [payload |-> SendPayload(Trim(inputText), language, sessionId),
                 closureSid |-> sessionId,
                 afterFirst |-> firstSid,
                 at |-> Len(messages) + 1])
         /\ settled' = "none"
         /\ UNCHANGED <<mounted, messages, now, language, sessionId, firstSid,
                        authVars, formVars>>

\* sendMessage up to its await: the early return on blank input, the user
\* message, and the call.  The call keeps the sessionId its closure saw.
sendMessage ==
    IF Trim(inputText) = <<>>
    THEN UNCHANGED <<chatVars, authVars, formVars>>
    ELSE /\ Len(calls) + Len(SelectSeq(messages, LAMBDA m : ~m.isBot)) < MaxSends
         /\ \E t \in ClockReadings :
               /\ now' = t
               /\ messages' = Append(messages,
                      [id |-> ClockId(t), isBot |-> FALSE, isError |-> FALSE,
                       text |-> Trim(inputText)])
         /\ inputText' = <<>>
         /\ loading' = TRUE
         /\ calls' = Append(calls,
                [payload |-> SendPayload(Trim(inputText), language, sessionId),
                 closureSid |-> sessionId,
                 afterFirst |-> firstSid,
                 at |-> Len(messages) + 1])
         /\ settled' = "none"
         /\ UNCHANGED <<mounted, language, sessionId, firstSid, authVars, formVars>>

\* Button onPress={sendMessage} disabled={loading || !inputText.trim()}
pressSend ==
    /\ mounted
    /\ ~(loading \/ Trim(inputText) = <<>>)
    /\ sendMessage

\* TextInput onSubmitEditing={sendMessage}
submitEditing ==
    /\ mounted
    /\ sendMessage

RemoveAt(q, i) == SubSeq(q, 1, i - 1) \o SubSeq(q, i + 1, Len(q))

\* if (!sessionId) setSessionId(response.data.session_id), with the sessionId
\* of the closure that made the call.
CaptureSession(closureSid, sid) ==
    IF ~Truthy(closureSid) THEN sid ELSE sessionId

\* A send-message call resolves: the try block after the await, then finally.
sendMessageResolved ==
    \E i \in DOMAIN calls, sid \in SessionIds, t \in ClockReadings :
        /\ sessionId' = CaptureSession(calls[i].closureSid, sid)
        /\ firstSid' = IF firstSid = NULL THEN sid ELSE firstSid
        /\ now' = t
        /\ messages' = Append(messages,
               [id |-> ClockId(t + 1), isBot |-> TRUE, isError |-> FALSE,
                text |-> <<"response">>])
        /\ loading' = FALSE
        /\ calls' = RemoveAt(calls, i)
        /\ settled' = "resolved"
        /\ UNCHANGED <<mounted, inputText, language, authVars, formVars>>

\* A sendMessage without its finally block: the failure leaves the busy flag.
sendMessageRejectedKeepingBusy ==
    \E i \in DOMAIN calls, status \in RejectedStatuses, t \in ClockReadings :
        /\ authToken' = Intercept(status)
        /\ now' = t
        /\ messages' = Append(messages,
               [id |-> ClockId(t + 1), isBot |-> TRUE, isError |-> TRUE,
                text |-> <<"error">>])
        /\ calls' = RemoveAt(calls, i)
        /\ settled' = "rejected"
        /\ UNCHANGED <<mounted, inputText, loading, language, sessionId,
                       firstSid, authRest, formVars>>

\* A catch block that puts the error message in the place of the last entry.
sendMessageRejectedReplacingLast ==
    \E i \in DOMAIN calls, status \in RejectedStatuses, t \in ClockReadings :
        /\ authToken' = Intercept(status)
        /\ now' = t
        /\ messages' = [messages EXCEPT ![Len(messages)] =
               [id |-> ClockId(t + 1), isBot |-> TRUE, isError |-> TRUE,
                text |-> <<"error">>]]
        /\ loading' = FALSE
        /\ calls' = RemoveAt(calls, i)
        /\ settled' = "rejected"
        /\ UNCHANGED <<mounted, inputText, language, sessionId, firstSid,
                       authRest, formVars>>

\* A send-message call rejects: the response interceptor, the catch block,
\* then finally.
sendMessageRejected ==
    \E i \in DOMAIN calls, status \in RejectedStatuses, t \in ClockReadings :
        /\ authToken' = Intercept(status)
        /\ now' = t
        /\ messages' = Append(messages,
               [id |-> ClockId(t + 1), isBot |-> TRUE, isError |-> TRUE,
                text |-> <<"error">>])
        /\ loading' = FALSE
        /\ calls' = RemoveAt(calls, i)
        /\ settled' = "rejected"
        /\ UNCHANGED <<mounted, inputText, language, sessionId, firstSid,
                       authRest, formVars>>

ChatNext ==
    \/ welcomeEffect
    \/ changeText
    \/ selectLanguage
    \/ pressSend
    \/ submitEditing
    \/ sendMessageResolved
    \/ sendMessageRejected

ChatSpec == ChatInit /\ [][ChatNext]_vars

\* axios settles every call: with a response, or with a rejection when its
\* timeout of 10 s runs out.
ChatLiveSpec ==
    ChatSpec /\ WF_vars(sendMessageResolved \/ sendMessageRejected)

(***************************************************************************)
(* Forms: RegisterScreen and LoginScreen.  FormSpec starts with the auth   *)
(* screens shown after a bootstrap that found nothing stored, on the web   *)
(* build: the two screens are the same code on every storage backend.      *)
(***************************************************************************)

FormInit ==
    /\ ChatUnmounted
    /\ FormsUnsubmitted
    /\ build = "web"
    /\ store = EmptyStore
    /\ user = NULL
    /\ token = NULL
    /\ isLoading = FALSE
    /\ authToken = NULL
    /\ bootPc = "done"
    /\ storedToken = NULL
    /\ storedUser = NULL
    /\ clearFrom = "none"
    /\ profileCalls = 0
    /\ validation = "none"
    /\ cleared = FALSE
    /\ bootStore = EmptyStore
    /\ ops = [o \in AllOps |-> IdleOp]
    /\ returned = NoResult
    /\ restarts = 0
    /\ response = -1

\* String.prototype.toLowerCase
ToLowerCase(s) ==
    [i \in DOMAIN s |-> IF s[i] = "EVSU.EDU.PH" THEN "evsu.edu.ph" ELSE s[i]]

\* String.prototype.includes
Includes(s, sub) ==
    \E i \in 0..(Len(s) - Len(sub)) : SubSeq(s, i + 1, i + Len(sub)) = sub

\* A validateForm that does not compare the password with its confirmation.
validateFormWithoutConfirmation ==
    IF \/ formData.student_id = <<>> \/ formData.email = <<>>
       \/ formData.password = <<>> \/ formData.password_confirm = <<>>
       \/ formData.first_name = <<>> \/ formData.last_name = <<>>
    THEN "Please fill in all required fields"
    ELSE IF Len(formData.password) < 6
    THEN "Password must be at least 6 characters"
    ELSE IF /\ ~Includes(ToLowerCase(formData.email), EvsuDomain)
            /\ ~Includes(ToLowerCase(formData.email), StudentDomain)
    THEN "Please use your EVSU email address"
    ELSE NULL

\* validateForm: the alert it shows, or NULL when it returns true.
validateForm ==
    IF \/ formData.student_id = <<>> \/ formData.email = <<>>
       \/ formData.password = <<>> \/ formData.password_confirm = <<>>
       \/ formData.first_name = <<>> \/ formData.last_name = <<>>
    THEN "Please fill in all required fields"
    ELSE IF formData.password # formData.password_confirm
    THEN "Passwords do not match"
    ELSE IF Len(formData.password) < 6
    THEN "Password must be at least 6 characters"
    ELSE IF /\ ~Includes(ToLowerCase(formData.email), EvsuDomain)
            /\ ~Includes(ToLowerCase(formData.email), StudentDomain)
    THEN "Please use your EVSU email address"
    ELSE NULL

\* The check at the top of handleLogin.
validateLogin ==
    IF loginForm.email = <<>> \/ loginForm.password = <<>>
    THEN "Please fill in all fields"
    ELSE NULL

\* onChangeText={(value) => updateField(field, value)}
updateField ==
    /\ AuthScreens
    /\ \/ \E f \in {"student_id", "first_name", "last_name"}, v \in Names :
             formData' = [formData EXCEPT ![f] = v]
       \/ \E v \in Emails : formData' = [formData EXCEPT !.email = v]
       \/ \E f \in {"password", "password_confirm"}, v \in Passwords :
             formData' = [formData EXCEPT ![f] = v]
    /\ submitted' = NoSubmit
    /\ UNCHANGED <<loginForm, chatVars, authVars>>

\* onChangeText={setEmail}, onChangeText={setPassword}
setLoginField ==
    /\ AuthScreens
    /\ \/ \E v \in {<<>>, <<"a", "@", "evsu.edu.ph">>} :
             loginForm' = [loginForm EXCEPT !.email = v]
       \/ \E v \in {<<>>, <<"p", "a", "s", "s", "1", "2">>} :
             loginForm' = [loginForm EXCEPT !.password = v]
    /\ submitted' = NoSubmit
    /\ UNCHANGED <<formData, chatVars, authVars>>

\* A press of a form's button: the alert of its check, or the call.
Submit(form, op, alert, email) ==
    IF alert # NULL
    THEN /\ submitted' = [form |-> form, alert |-> alert, called |-> FALSE,
                          email |-> <<>>]
         /\ UNCHANGED <<formData, loginForm, chatVars, authVars>>
    ELSE /\ CallAuth(op)
         /\ submitted' = [form |-> form, alert |-> NULL, called |-> TRUE,
                          email |-> email]
         /\ UNCHANGED <<formData, loginForm, chatVars>>

\* Button onPress={handleRegister} disabled={loading}
handleRegister ==
    /\ AuthScreens
    /\ ops["register"].pc = "idle"
    /\ Submit("register", "register", validateForm, formData.email)

\* Button onPress={handleLogin} disabled={loading}
handleLogin ==
    /\ AuthScreens
    /\ ops["login"].pc = "idle"
    /\ Submit("login", "login", validateLogin, loginForm.email)

\* The response of a login or register call arrives: on localStorage the
\* call then runs to its end without another await.
authSettles == \E op \in AuthOps : AuthResponse(op)

FormNext ==
    \/ updateField
    \/ setLoginField
    \/ handleRegister
    \/ handleLogin
    \/ authSettles

FormSpec == FormInit /\ [][FormNext]_vars

(***************************************************************************)
(* Properties.                                                             *)
(***************************************************************************)

\* The step in which loadStoredAuth finishes.
BootFinishes == bootPc # "done" /\ bootPc' = "done"

\* The step in which a call of the operation returns (or rejects).
Returns(op) == ops[op].pc # "idle" /\ ops'[op].pc = "idle"

\* Both values this bootstrap found stored pass `storedToken && storedUser`.
StoredPair == Truthy(bootStore.authToken) /\ Truthy(bootStore.userData)

\* C1: whenever no operation is in progress, the credential store holds the
\* token and the user record together or holds neither: never a token
\* without a user record, never a user record without a token.
C1_StorePairInvariant ==
    Quiescent => ((store.authToken = NULL) <=> (store.userData = NULL))

\* C2: when bootstrap finishes, the session state holds both the stored
\* token and the decoded stored user, or neither of them (token and user
\* both null), also when decoding the stored user record fails.
C2_NoPartialRestore ==
    [][BootFinishes =>
          \/ token' = NULL /\ user' = NULL
          \/ /\ StoredPair
             /\ token' = bootStore.authToken
             /\ JSONParse(bootStore.userData) = [ok |-> TRUE, val |-> user']]_vars

\* C3: if the profile validation call of bootstrap failed, then
\* when bootstrap finishes the credential store holds neither token nor user
\* record and the session state is unauthenticated.
C3_FailedValidationEmptiesStore ==
    [][BootFinishes /\ validation' = "failed" =>
          store' = EmptyStore /\ token' = NULL /\ user' = NULL]_vars

\* C4: bootstrap populates the session state only when both stored values
\* are present and the profile-fetch call made with the token has succeeded;
\* if either stored value is absent no profile-fetch call is issued and the
\* session state stays empty.
C4_RestoreOnlyValidated ==
    [][BootFinishes =>
          /\ (token' # NULL \/ user' # NULL) =>
                StoredPair /\ validation' = "ok"
          /\ ~StoredPair =>
                profileCalls' = 0 /\ token' = NULL /\ user' = NULL]_vars

\* C5: when logout ends, the session state is cleared (token and user null),
\* the API client's token is cleared and the credential store holds neither
\* token nor user record, whether the logout network call succeeded or not.
C5_LogoutClearsEverything ==
    [][Returns("logout") =>
          /\ token' = NULL
          /\ user' = NULL
          /\ authToken' = NULL
          /\ store' = EmptyStore]_vars

\* C6: a login, register or updateProfile that fails returns success = false
\* with the server payload's message, or the operation's fallback text when
\* the payload has none, and no step of the operation other than its
\* successful return changes the session state (user, token).
C6_FailureLeavesSession ==
    [][\A op \in {"login", "register", "updateProfile"} :
          /\ (ops'[op] # ops[op] /\ ~(returned'.op = op /\ returned'.success))
                => user' = user /\ token' = token
          /\ Returns(op) => returned'.op = op
          /\ (Returns(op) /\ ~returned'.success) =>
                returned'.error =
                    IF returned'.message \notin {NULL, UNDEF, ""}
                    THEN returned'.message
                    ELSE CASE op = "login" -> "Login failed"
                           [] op = "register" -> "Registration failed"
                           [] OTHER -> "Profile update failed"]_vars

\* An updateProfile has just failed with the server's message while a
\* session was established.
C6_Witness ==
    /\ returned.op = "updateProfile"
    /\ ~returned.success
    /\ returned.error = "Invalid credentials"
    /\ user \in Users
    /\ token \in Tokens

\* C7: when a login or register returns success, the session state's token
\* and user are those of the response payload, the credential store holds
\* that same pair, and the API client's token is that token.
C7_SuccessInstallsPayload ==
    [][\A op \in AuthOps :
          (Returns(op) /\ returned'.success) =>
              /\ token' = returned'.tok
              /\ user' = returned'.usr
              /\ authToken' = returned'.tok
              /\ store' = [authToken |-> returned'.tok,
                           userData |-> Stringify(returned'.usr)]]_vars

\* C8: once the chat session id holds a value, no step changes it.
C8_SessionIdSetOnce ==
    [][sessionId # NULL => sessionId' = sessionId]_vars

\* C9: every send-message call dispatched after the first successful
\* response carries the session id that this first response returned.
C9_SendsCarryFirstSessionId ==
    \A i \in DOMAIN calls :
        calls[i].afterFirst # NULL =>
            calls[i].payload.session_id = calls[i].afterFirst

\* C10: no two send-message calls are in flight at the same time.
C10_NoParallelSends == Len(calls) <= 1

\* The email ends with one of the two institutional domains, whatever its
\* case.
EndsWith(s, suffix) ==
    /\ Len(s) >= Len(suffix)
    /\ SubSeq(s, Len(s) - Len(suffix) + 1, Len(s)) = suffix

InstitutionalEmail(e) ==
    \/ EndsWith(ToLowerCase(e), EvsuDomain)
    \/ EndsWith(ToLowerCase(e), StudentDomain)

\* The step is a press of the button of the form.
Pressed(form) == submitted' # submitted /\ submitted'.form = form

\* C11: no register call is issued for an email that does not end in
\* @evsu.edu.ph or @student.evsu.edu.ph (whatever its case).
C11_NoRegisterOutsideDomain ==
    [][(Pressed("register") /\ ~InstitutionalEmail(formData.email)) =>
          ~submitted'.called /\ ops' = ops]_vars

\* C12: a press of Register with a required field missing, a password that
\* differs from its confirmation or a password shorter than 6 characters,
\* and a press of Login with the email or the password empty, issue no
\* network call and leave session state and credential store unchanged.
C12_InvalidFormNoCall ==
    [][(\/ /\ Pressed("register")
           /\ \/ \E f \in DOMAIN formData : formData[f] = <<>>
              \/ formData.password # formData.password_confirm
              \/ Len(formData.password) < 6
        \/ /\ Pressed("login")
           /\ (loginForm.email = <<>> \/ loginForm.password = <<>>)) =>
          /\ ~submitted'.called
          /\ ops' = ops
          /\ user' = user /\ token' = token /\ store' = store]_vars

\* A press of Register with mismatched passwords has just been refused.
C12_Witness ==
    /\ submitted.form = "register"
    /\ submitted.alert = "Passwords do not match"
    /\ formData.password # formData.password_confirm
    /\ \A o \in AllOps : ops[o].pc = "idle"
    /\ store = EmptyStore

\* The step settles a send-message call (its response or failure arrives).
Settles(i) == i \in DOMAIN calls /\ calls' = RemoveAt(calls, i)

\* C13: the user's message of every send is in the list while its call is
\* in flight, and the reply (bot or error) of the call is appended after it.
C13_OptimisticOrdering ==
    [][\A i \in DOMAIN calls :
          (Settles(i) /\ Len(calls') < Len(calls)) =>
              /\ calls[i].at \in DOMAIN messages
              /\ ~messages[calls[i].at].isBot
              /\ messages[calls[i].at].text = calls[i].payload.message
              /\ Len(messages') > Len(messages)
              /\ messages'[Len(messages')].isBot
              /\ SubSeq(messages', 1, Len(messages)) = messages]_vars

\* A reply stands in the list right after the user message that caused it.
C13_Witness ==
    /\ calls = <<>>
    /\ Len(messages) = 3
    /\ ~messages[2].isBot
    /\ messages[3].isBot
    /\ settled = "resolved"

\* C14: the message list is append-only: every step leaves the list it found
\* as a prefix of the new list, and the first entry of a list that is not
\* empty is the welcome message.
C14_AppendOnly ==
    [][/\ Len(messages') >= Len(messages)
       /\ SubSeq(messages', 1, Len(messages)) = messages
       /\ messages' # <<>> => messages'[1].id = WelcomeId
       /\ mounted' => messages' # <<>>]_vars

\* The list has grown by a send and an error reply behind the welcome
\* message.
C14_Witness ==
    /\ Len(messages) >= 3
    /\ messages[1].id = WelcomeId
    /\ messages[Len(messages)].isError
    /\ settled = "rejected"

\* The positions a user message can take in the list.
Positions == 1..(2 * MaxSends + 1)

\* The call whose user message stands at position k is in flight.
InFlight(k) == \E i \in DOMAIN calls : calls[i].at = k

\* C15: every dispatched send-message call settles, and the step in which
\* it settles appends exactly one reply (the bot message when the call
\* succeeded, an error message flagged as error when it failed), issues no
\* new call and clears the busy flag.
C15_OneReplyPerSend ==
    /\ \A k \in Positions : InFlight(k) ~> ~InFlight(k)
    /\ [][Len(calls') < Len(calls) =>
             /\ Len(calls') = Len(calls) - 1
             /\ settled' \in {"resolved", "rejected"}
             /\ Len(messages') = Len(messages) + 1
             /\ SubSeq(messages', 1, Len(messages)) = messages
             /\ messages'[Len(messages')].isBot
             /\ messages'[Len(messages')].isError = (settled' = "rejected")
             /\ ~loading']_vars

\* A call has failed and its error message is the last entry, with the busy
\* flag cleared.
C15_Witness ==
    /\ settled = "rejected"
    /\ messages[Len(messages)].isError
    /\ ~loading
    /\ calls = <<>>

\* C16: the ids of the messages in the list are pairwise distinct.
C16_DistinctIds ==
    \A i, j \in DOMAIN messages : i # j => messages[i].id # messages[j].id

C18_BootstrapEndsLoading ==
    /\ isLoading ~> ~isLoading
    /\ [][(~isLoading /\ isLoading') => restarts' = restarts + 1]_vars

\* A bootstrap whose validation failed and whose clearing was rejected by
\* the storage has ended in a non-loading state.
C18_Witness ==
    /\ ~isLoading
    /\ bootPc = "done"
    /\ validation = "failed"
    /\ ~cleared
    /\ store # EmptyStore

\* C19: once logout has completed (session state and credential store
\* empty, no logout in flight), no step of an updateProfile call that was
\* started before it sets the session user or writes to the store.
C19_NoProfileAfterLogout ==
    [][(/\ ops'["updateProfile"] # ops["updateProfile"]
        /\ ops["logout"].pc = "idle"
        /\ user = NULL /\ token = NULL /\ store = EmptyStore) =>
          user' = NULL /\ store' = EmptyStore]_vars

\* C20: whenever no operation is in flight, the API client's token is the
\* session state's token.
C20_ClientTokenIsSessionToken ==
    Quiescent => authToken = token

\* The step in which a call of login or register starts.
StartsAuth == \E op \in AuthOps : ops[op].pc = "idle" /\ ops'[op].pc # "idle"

\* A step of the bootstrap that removes something from the credential store.
BootstrapRemoves == bootPc # "done" /\ store' # store

\* C21: no login or register starts while the bootstrap is in progress (the
\* auth screens are rendered only when isLoading is false and user is null),
\* and no login or register is in flight during the bootstrap, so whatever the
\* clearing of the bootstrap removes from the credential store is a record
\* this run found stored when it started, never one that a login or register
\* of this run wrote.
C21_NoAuthDuringBootstrap ==
    [][/\ StartsAuth => bootPc = "done" /\ ~isLoading /\ ~Truthy(user)
       /\ bootPc # "done" =>
             \A op \in AuthOps : ops[op].pc = "idle" /\ ops'[op].pc = "idle"
       /\ BootstrapRemoves =>
             \A k \in DOMAIN store :
                /\ store[k] \in {bootStore[k], NULL}
                /\ store'[k] \in {store[k], NULL}]_vars

\* A bootstrap cleared the stale credentials it found, and a login or register
\* started afterwards wrote the session that is now stored.
C21_Witness ==
    /\ cleared
    /\ bootPc = "done"
    /\ returned.op \in AuthOps
    /\ returned.success
    /\ store.authToken \in Tokens
    /\ store.authToken = token

====
